---- MODULE Spec2Model ----
(***************************************************************************)
(* A model of the location-based Weibo collector:                          *)
(*   - WeiboDataCollector (src/src/collectors/weibo_collector.py):         *)
(*     the pagination / retry loop and the JSON-shape validation;          *)
(*   - AmapCoordinateCollector (src/src/collectors/coordinate_collector.py)*)
(*     the coordinate pass with its in-memory duplicate registry;          *)
(*   - the interactive workflow menu (src/src/utils/workflow.py);          *)
(*   - FileConverter (src/src/utils/file_converter.py);                    *)
(*   - WeiboURLGenerator (src/src/collectors/url_generator.py).            *)
(* Each component has its own specification (Spec, SpecCoord,              *)
(* SpecWorkflow, SpecConvert, SpecUrls, SpecFetch); the variables of the   *)
(* other components stay parked.                                           *)
(***************************************************************************)
EXTENDS Integers, Sequences, FiniteSets, TLC

VARIABLES
    \* ---- WeiboDataCollector -------------------------------------------
    cookies,                \* self.cookies ("" when the cookie file is empty/unreadable)
    csv,                    \* the input CSV: [hasApiUrl, rows]
    delay_between_requests, \* parameter of collect_weibo_data_from_csv
    pc,                     \* position inside collect_weibo_data_from_csv
    locations,              \* df['Location'].unique()
    locIdx,                 \* index of the location being processed
    location_df,            \* rows of the current location, sorted by Page
    base_url_without_page,
    coordinates,
    current_max_page,
    page,
    api_url,
    attempt,                \* loop variable of fetch_weibo_data_from_api
    fetch_ret,              \* value returned by fetch_weibo_data_from_api
    location_posts,
    all_weibo_data,
    stats,                  \* self.stats
    result,                 \* return value of collect_weibo_data_from_csv
    output_written,         \* whether the output CSV was written
    \* ---- history of the collector run (observations, not program state)
    httpCount,              \* session.get calls issued so far
    pageHttp,               \* session.get calls issued by the current fetch
    fetchCount,             \* calls of fetch_weibo_data_from_api so far
    backoff,                \* total time slept by the retry loop of the current fetch
    lastSleep,              \* duration of the last retry sleep of the current fetch
    requested,              \* pages fetched so far for the current location
    locOrder,               \* locations in the order their requests were issued
    returned,               \* concatenation of the post lists returned for the current location
    pageSentinel,           \* a response to the page last fetched carried the sentinel
    lastResp,               \* class of the last HTTP response and what the attempt did with it
    \* ---- AmapCoordinateCollector --------------------------------------
    cc,
    \* ---- workflow menu ------------------------------------------------
    wf,
    \* ---- FileConverter (src/src/utils/file_converter.py) --------------
    fc,
    \* ---- WeiboURLGenerator (src/src/collectors/url_generator.py) ------
    ug,
    \* ---- extract_weibo_info_from_json applied to one response body ----
    ex

collectorVars ==
    << cookies, csv, delay_between_requests, pc, locations, locIdx, location_df,
       base_url_without_page, coordinates, current_max_page, page, api_url,
       attempt, fetch_ret, location_posts, all_weibo_data, stats, result,
       output_written, httpCount, pageHttp, fetchCount, backoff, lastSleep,
       requested, locOrder, returned, pageSentinel, lastResp >>

otherVars == << fc, ug, ex >>

vars == << collectorVars, cc, wf, otherVars >>

(***************************************************************************)
(* Bounds of the model and constants of the program.                       *)
(***************************************************************************)
max_pages_to_test == 2

retry_count == 3

\* ---------------------------------------------------------------------
\* Small helpers
\* ---------------------------------------------------------------------
Range(s) == { s[i] : i \in 1..Len(s) }

\* ---------------------------------------------------------------------
\* JSON values of an API response, by shape.
\* ---------------------------------------------------------------------
\* mblog of a card: absent (the default {} is used), not a dict, an empty
\* dict, a dict whose 'text' is not a string (extract_mblog_info raises on
\* it), or a well-formed post with the given mid.
Mblog(kind, mid) == [kind |-> kind, mid |-> mid]

NoMblog == Mblog("absent", 0)

GroupItem(isdict, card_type, mblog) ==
    [isdict |-> isdict, card_type |-> card_type, mblog |-> mblog]

Card(isdict, card_type, mblog, groupKind, group) ==
    [isdict |-> isdict, card_type |-> card_type, mblog |-> mblog,
     groupKind |-> groupKind, card_group |-> group]

PostCard(mid) == Card(TRUE, "9", Mblog("dict", mid), "absent", << >>)

GroupCard(items) == Card(TRUE, "11", NoMblog, "list", items)

Json(top, ok, msg, dataKind, cardsKind, cards) ==
    [top |-> top, ok |-> ok, msg |-> msg, dataKind |-> dataKind,
     cardsKind |-> cardsKind, cards |-> cards]

NoContentMsg == "no_content"   \* stands for the msg '这里还没有内容'

OkJson(cards) == Json("dict", "1", "other", "dict", "list", cards)

\* The bodies a server may answer with.
JsonBodies ==
    { Json("invalid", "absent", "other", "absent", "absent", << >>),
      Json("nondict", "absent", "other", "absent", "absent", << >>),
      Json("dict", "0", NoContentMsg, "absent", "absent", << >>),
      Json("dict", "0", NoContentMsg, "dict", "list", << PostCard(1) >>),
      Json("dict", "0", NoContentMsg, "dict", "list",
           << Card(TRUE, "unhashable", NoMblog, "absent", << >>) >>),
      Json("dict", "0", "other", "dict", "list", << PostCard(1) >>),
      Json("dict", "absent", "other", "dict", "list", << PostCard(1) >>),
      Json("dict", "1", NoContentMsg, "dict", "list", << PostCard(1) >>),
      Json("dict", "1", "other", "absent", "absent", << >>),
      Json("dict", "1", "other", "nondict", "absent", << >>),
      Json("dict", "1", "other", "dict", "absent", << >>),
      Json("dict", "1", "other", "dict", "nonlist", << >>),
      OkJson(<< >>),
      OkJson(<< PostCard(1) >>),
      OkJson(<< PostCard(2), GroupCard(<< GroupItem(TRUE, "9", Mblog("dict", 1)) >>) >>),
      OkJson(<< Card(FALSE, "absent", NoMblog, "absent", << >>), PostCard(1) >>),
      OkJson(<< Card(TRUE, "9", Mblog("nondict", 0), "absent", << >>),
                Card(TRUE, "9", Mblog("empty", 0), "absent", << >>),
                Card(TRUE, "11", NoMblog, "nonlist", << >>),
                Card(TRUE, "other", Mblog("dict", 1), "absent", << >>) >>),
      OkJson(<< GroupCard(<< GroupItem(FALSE, "absent", NoMblog),
                             GroupItem(TRUE, "other", Mblog("dict", 2)),
                             GroupItem(TRUE, "9", Mblog("empty", 0)) >>) >>),
      OkJson(<< PostCard(1), Card(TRUE, "9", Mblog("badtext", 2), "absent", << >>),
                PostCard(2) >>),
      OkJson(<< Card(TRUE, "unhashable", NoMblog, "absent", << >>), PostCard(1) >>) }

NoJson == Json("invalid", "absent", "other", "absent", "absent", << >>)

\* What session.get does: raise, or answer with a status code and a body.
Response(kind, status_code, json) ==
    [kind |-> kind, status_code |-> status_code, json |-> json]

Responses ==
    { Response("exception", 0, NoJson), Response("http", 500, NoJson) }
    \cup { Response("http", 200, j) : j \in JsonBodies }

\* ---------------------------------------------------------------------
\* extract_mblog_info / extract_weibo_info_from_json
\* ---------------------------------------------------------------------
\* isinstance(mblog, dict) and mblog
MblogUsable(mblog) == mblog.kind \in {"dict", "badtext"}

\* extract_mblog_info raises on a 'text' that is not a string ('in' on it)
MblogRaises(mblog) == mblog.kind = "badtext"

\* A record built without the coordinates it was given.
extract_mblog_info_NoCoordinates(mblog, coords) ==
    [mid |-> mblog.mid, coordinates |-> 0, location |-> 0]

\* The record extract_mblog_info builds; 'location' is added by the caller.
extract_mblog_info(mblog, coords) ==
    [mid |-> mblog.mid, coordinates |-> coords, location |-> 0]

\* The inner loop over card_group. acc is weibo_posts so far; the result
\* says whether an exception left the loop.
RECURSIVE ExtractGroup(_, _, _)
ExtractGroup(items, coords, acc) ==
    IF items = << >> THEN [posts |-> acc, raised |-> FALSE]
    ELSE LET item == Head(items) IN
         IF ~item.isdict THEN ExtractGroup(Tail(items), coords, acc)
         ELSE IF item.card_type = "9" /\ MblogUsable(item.mblog)
         THEN IF MblogRaises(item.mblog)
              THEN [posts |-> acc, raised |-> TRUE]
              ELSE ExtractGroup(Tail(items), coords,
                                Append(acc, extract_mblog_info(item.mblog, coords)))
         ELSE ExtractGroup(Tail(items), coords, acc)

\* The loop over cards.
RECURSIVE ExtractCards(_, _, _)
ExtractCards(cards, coords, acc) ==
    IF cards = << >> THEN [posts |-> acc, raised |-> FALSE]
    ELSE LET card == Head(cards) IN
         IF ~card.isdict THEN ExtractCards(Tail(cards), coords, acc)
         ELSE IF card.card_type = "9"
         THEN IF MblogUsable(card.mblog)
              THEN IF MblogRaises(card.mblog)
                   THEN [posts |-> acc, raised |-> TRUE]
                   ELSE ExtractCards(Tail(cards), coords,
                                     Append(acc, extract_mblog_info(card.mblog, coords)))
              ELSE ExtractCards(Tail(cards), coords, acc)
         ELSE IF card.card_type = "11"
         THEN IF card.groupKind = "nonlist"
              THEN ExtractCards(Tail(cards), coords, acc)
              ELSE LET g == ExtractGroup(IF card.groupKind = "list"
                                         THEN card.card_group ELSE << >>,
                                         coords, acc) IN
                   IF g.raised THEN g
                   ELSE ExtractCards(Tail(cards), coords, g.posts)
         ELSE ExtractCards(Tail(cards), coords, acc)

\* json_data.get('ok') == 0 and json_data.get('msg') == '这里还没有内容'
IsNoContent(json_data) == json_data.ok = "0" /\ json_data.msg = NoContentMsg

extract_weibo_info_from_json(json_data, coords) ==
    IF json_data.top # "dict" THEN << >>
    ELSE IF IsNoContent(json_data) THEN << >>
    ELSE IF json_data.ok # "1" THEN << >>
    ELSE IF json_data.dataKind = "nondict" THEN << >>
    ELSE IF json_data.dataKind = "absent" THEN << >>
    ELSE IF json_data.cardsKind = "nonlist" THEN << >>
    ELSE IF json_data.cardsKind = "absent" THEN << >>
    ELSE ExtractCards(json_data.cards, coords, << >>).posts

\* ---------------------------------------------------------------------
\* fetch_weibo_data_from_api: one pass of the retry loop
\* ---------------------------------------------------------------------
\* The debug logging counts card types in a dict keyed by card_type; an
\* unhashable card_type (a JSON list or object) raises TypeError there.
LogRaises(json_data) ==
    /\ json_data.top = "dict"
    /\ json_data.dataKind = "dict"
    /\ json_data.cardsKind = "list"
    /\ \E i \in 1..Len(json_data.cards) :
          json_data.cards[i].isdict /\ json_data.cards[i].card_type = "unhashable"

\* for post in weibo_posts: post['location'] = location
RECURSIVE SetLocation(_, _)
SetLocation(posts, location) ==
    IF posts = << >> THEN << >>
    ELSE << [Head(posts) EXCEPT !.location = location] >>
         \o SetLocation(Tail(posts), location)

\* End of data whenever the page has no posts.
EndOfData_NoPosts(json_data, posts) == posts = << >>

\* is_end_of_data = (json_data.get('ok') == 0 and json_data.get('msg') == ...)
EndOfData(json_data, posts) == IsNoContent(json_data)

\* What one attempt makes of the response: "ok" (the fetch returns posts
\* and is_end_of_data) or "fail" (one of the three handlers runs).
AttemptOutcome(resp, coords, location) ==
    IF resp.kind = "exception"
    THEN [kind |-> "fail", posts |-> << >>, end |-> FALSE]
    ELSE IF resp.status_code # 200
    THEN [kind |-> "fail", posts |-> << >>, end |-> FALSE]
    ELSE IF resp.json.top = "invalid"
    THEN [kind |-> "fail", posts |-> << >>, end |-> FALSE]
    ELSE IF LogRaises(resp.json)
    THEN [kind |-> "fail", posts |-> << >>, end |-> FALSE]
    ELSE IF resp.json.top # "dict"
    THEN [kind |-> "fail", posts |-> << >>, end |-> FALSE]
    ELSE LET weibo_posts == extract_weibo_info_from_json(resp.json, coords)
         IN [kind |-> "ok",
             posts |-> SetLocation(weibo_posts, location),
             end |-> EndOfData(resp.json, weibo_posts)]

\* Class of a response, for the history.
RespClass(resp) ==
    IF resp.kind = "exception" THEN "transport"
    ELSE IF resp.status_code # 200 THEN "non200"
    ELSE IF resp.json.top = "invalid" THEN "unparseable"
    ELSE "parsed"


\* ---------------------------------------------------------------------
\* The input CSV of collect_weibo_data_from_csv
\* ---------------------------------------------------------------------
\* An API URL: the text before the first '&page=', the page number that
\* follows it (0: the URL has no '&page=') and whether more text follows.
Url(pre, pg, post) == [pre |-> pre, page |-> pg, post |-> post]

Row(location, pg, url, coords) ==
    [Location |-> location, Page |-> pg, API_URL |-> url, Coordinates |-> coords]

\* One row per location, as generate_urls_from_csv writes them.
GeneratedRows(n) == [i \in 1..n |-> Row(i, 1, Url(i, 1, FALSE), 10 + i)]

\* Hand-made rows: location 1 has two pages (1 and 3, none for page 2),
\* listed out of order and interleaved with location 2.
MixedRows ==
    << Row(1, 3, Url(21, 3, TRUE), 21),
       Row(2, 1, Url(2, 0, FALSE), 12),
       Row(1, 1, Url(1, 1, TRUE), 11) >>

CsvRows == { GeneratedRows(1), MixedRows }

\* delay_between_requests, in units of half a second (the default is 1.0)
Delays == {2}

\* df['Location'].unique(): the locations in order of first appearance
RECURSIVE Unique(_, _)
Unique(rows, seen) ==
    IF rows = << >> THEN seen
    ELSE IF Head(rows).Location \in Range(seen)
         THEN Unique(Tail(rows), seen)
         ELSE Unique(Tail(rows), Append(seen, Head(rows).Location))

\* df[df['Location'] == location]
RECURSIVE RowsOf(_, _)
RowsOf(rows, location) ==
    IF rows = << >> THEN << >>
    ELSE IF Head(rows).Location = location
         THEN << Head(rows) >> \o RowsOf(Tail(rows), location)
         ELSE RowsOf(Tail(rows), location)

\* .sort_values('Page')
RECURSIVE InsertByPage(_, _)
InsertByPage(sorted, row) ==
    IF sorted = << >> THEN << row >>
    ELSE IF row.Page < Head(sorted).Page
         THEN << row >> \o sorted
         ELSE << Head(sorted) >> \o InsertByPage(Tail(sorted), row)

RECURSIVE SortByPage(_)
SortByPage(rows) ==
    IF rows = << >> THEN << >>
    ELSE InsertByPage(SortByPage(Tail(rows)), Head(rows))

\* location_df['Page'].max()
RECURSIVE MaxPage(_)
MaxPage(rows) ==
    IF rows = << >> THEN 0
    ELSE LET m == MaxPage(Tail(rows)) IN
         IF Head(rows).Page > m THEN Head(rows).Page ELSE m

\* base_url.split('&page=')[0]
WithoutPage(url) == Url(url.pre, 0, FALSE)

\* A generated URL that keeps asking for the first page.
WithPage_FirstPage(base, pg) == Url(base.pre, 1, FALSE)

\* f"{base_url_without_page}&page={page}"
WithPage(base, pg) == Url(base.pre, pg, FALSE)

\* The URL requested for a page: the CSV row of that page if there is one,
\* else the generated URL.
PageUrl(df, base, maxPage, pg) ==
    IF pg <= maxPage /\ \E i \in 1..Len(df) : df[i].Page = pg
    THEN df[CHOOSE i \in 1..Len(df) :
                /\ df[i].Page = pg
                /\ \A j \in 1..(i - 1) : df[j].Page # pg].API_URL
    ELSE WithPage(base, pg)

\* ---------------------------------------------------------------------
\* Pieces of the two loops
\* ---------------------------------------------------------------------
\* A page loop that runs one page too far.
InPageRange_OneMore(pg) == pg <= max_pages_to_test + 1

\* range(1, max_pages_to_test + 1)
InPageRange(pg) == pg <= max_pages_to_test

\* A retry test that allows one attempt too many.
HasRetryLeft_OneMore(a) == a < retry_count

\* if attempt < retry_count - 1
HasRetryLeft(a) == a < retry_count - 1

\* A constant sleep instead of a linear one.
RetrySleep_Constant(delay, a) == delay

\* time.sleep(delay * (attempt + 1))
RetrySleep(delay, a) == delay * (a + 1)

\* Putting the new page in front instead of at the end.
ExtendPosts_Prepend(posts, weibo_posts) == weibo_posts \o posts

\* if weibo_posts: location_posts.extend(weibo_posts)
ExtendPosts(posts, weibo_posts) ==
    IF weibo_posts # << >> THEN posts \o weibo_posts ELSE posts

NoStats ==
    [total_requests |-> 0, successful_requests |-> 0,
     failed_requests |-> 0, total_posts |-> 0]

NoResp == [class |-> "none", outcome |-> "none", sentinel |-> FALSE]

NoUrl == Url(0, 0, FALSE)

NoRet == [posts |-> << >>, end |-> FALSE]

\* A failed fetch that reports the end of the data.
FailedReturn_EndOfData == [posts |-> << >>, end |-> TRUE]

\* return [], False
FailedReturn == [posts |-> << >>, end |-> FALSE]

\* The current location
Location == locations[locIdx]


\* ---------------------------------------------------------------------
\* WeiboDataCollector.collect_weibo_data_from_csv
\* ---------------------------------------------------------------------
history == << httpCount, pageHttp, fetchCount, backoff, lastSleep, requested,
              locOrder, returned, pageSentinel, lastResp >>

inputs == << cookies, csv, delay_between_requests >>

locationVars == << location_df, base_url_without_page, coordinates, current_max_page >>

CollectorInit ==
    /\ cookies \in {"", "SUB=abc"}
    /\ csv \in [hasApiUrl : BOOLEAN, rows : CsvRows]
    /\ delay_between_requests \in Delays
    /\ pc = "start"
    /\ locations = << >>
    /\ locIdx = 0
    /\ location_df = << >>
    /\ base_url_without_page = NoUrl
    /\ coordinates = 0
    /\ current_max_page = 0
    /\ page = 0
    /\ api_url = NoUrl
    /\ attempt = 0
    /\ fetch_ret = NoRet
    /\ location_posts = << >>
    /\ all_weibo_data = << >>
    /\ stats = NoStats
    /\ result = "none"
    /\ output_written = FALSE
    /\ httpCount = 0
    /\ pageHttp = 0
    /\ fetchCount = 0
    /\ backoff = 0
    /\ lastSleep = 0
    /\ requested = << >>
    /\ locOrder = << >>
    /\ returned = << >>
    /\ pageSentinel = FALSE
    /\ lastResp = NoResp

\* A guard that forgets the cookie check.
Refused_ColumnOnly(ck, file) == ~file.hasApiUrl

\* if not self.cookies ... / if 'API_URL' not in df.columns ...
Refused(ck, file) == ck = "" \/ ~file.hasApiUrl

\* The guards at the top: no cookies, or no API_URL column, returns False.
StartCollect ==
    /\ pc = "start"
    /\ IF Refused(cookies, csv)
       THEN /\ result' = FALSE
            /\ pc' = "done"
            /\ UNCHANGED << locations, locIdx >>
       ELSE /\ locations' = Unique(csv.rows, << >>)
            /\ locIdx' = 1
            /\ pc' = "location"
            /\ UNCHANGED result
    /\ UNCHANGED << inputs, locationVars, page, api_url, attempt, fetch_ret,
                    location_posts, all_weibo_data, stats, output_written,
                    history, cc, wf, otherVars >>

\* Head of the location loop: the location's rows, base URL, coordinates.
NextLocation ==
    /\ pc = "location"
    /\ locIdx <= Len(locations)
    /\ LET df == SortByPage(RowsOf(csv.rows, Location))
           first_row == df[1]
       IN /\ location_df' = df
          /\ base_url_without_page' =
                 IF first_row.API_URL.page # 0
                 THEN WithoutPage(first_row.API_URL)
                 ELSE first_row.API_URL
          /\ coordinates' = first_row.Coordinates
          /\ current_max_page' = MaxPage(df)
    /\ location_posts' = << >>
    /\ page' = 1
    /\ pc' = "page"
    /\ requested' = << >>
    /\ returned' = << >>
    /\ pageSentinel' = FALSE
    /\ UNCHANGED << inputs, locations, locIdx, api_url, attempt, fetch_ret,
                    all_weibo_data, stats, result, output_written, httpCount,
                    pageHttp, fetchCount, backoff, lastSleep, locOrder,
                    lastResp, cc, wf, otherVars >>

\* Head of the page loop and the call of fetch_weibo_data_from_api.
BeginFetch ==
    /\ pc = "page"
    /\ InPageRange(page)
    /\ api_url' = PageUrl(location_df, base_url_without_page, current_max_page, page)
    /\ stats' = [stats EXCEPT !.total_requests = @ + 1]
    /\ attempt' = 0
    /\ pc' = "attempt"
    /\ fetchCount' = fetchCount + 1
    /\ pageHttp' = 0
    /\ backoff' = 0
    /\ lastSleep' = 0
    /\ lastResp' = NoResp
    /\ pageSentinel' = FALSE
    /\ UNCHANGED << inputs, locations, locIdx, locationVars, page, fetch_ret,
                    location_posts, all_weibo_data, result, output_written,
                    httpCount, requested, locOrder, returned, cc, wf, otherVars >>

\* One pass of the retry loop: session.get and what follows from the response.
Attempt ==
    /\ pc = "attempt"
    /\ \E resp \in Responses :
          LET o == AttemptOutcome(resp, coordinates, Location)
              carriesSentinel == /\ RespClass(resp) = "parsed"
                                 /\ resp.json.top = "dict"
                                 /\ IsNoContent(resp.json)
          IN /\ httpCount' = httpCount + 1
             /\ pageHttp' = pageHttp + 1
             /\ requested' = IF attempt = 0 THEN Append(requested, page) ELSE requested
             /\ locOrder' = IF locOrder # << >> /\ locOrder[Len(locOrder)] = Location
                            THEN locOrder ELSE Append(locOrder, Location)
             /\ pageSentinel' = (pageSentinel \/ carriesSentinel)
             /\ lastResp' = [class |-> RespClass(resp), outcome |-> o.kind,
                             sentinel |-> carriesSentinel]
             /\ IF o.kind = "ok"
                THEN /\ stats' = [stats EXCEPT !.successful_requests = @ + 1,
                                               !.total_posts = @ + Len(o.posts)]
                     /\ fetch_ret' = [posts |-> o.posts, end |-> o.end]
                     /\ returned' = returned \o o.posts
                     /\ pc' = "fetched"
                     /\ UNCHANGED << attempt, backoff, lastSleep >>
                ELSE IF HasRetryLeft(attempt)
                THEN /\ backoff' = backoff + RetrySleep(delay_between_requests, attempt)
                     /\ lastSleep' = RetrySleep(delay_between_requests, attempt)
                     /\ attempt' = attempt + 1
                     /\ UNCHANGED << stats, fetch_ret, returned, pc >>
                ELSE /\ stats' = [stats EXCEPT !.failed_requests = @ + 1]
                     /\ fetch_ret' = FailedReturn
                     /\ pc' = "fetched"
                     /\ UNCHANGED << attempt, backoff, lastSleep, returned >>
    /\ UNCHANGED << inputs, locations, locIdx, locationVars, page, api_url,
                    location_posts, all_weibo_data, result, output_written,
                    fetchCount, cc, wf, otherVars >>

\* After the fetch: accumulate, stop at end of data, else go to the next page.
\* The locals of the finished fetch (and the history kept about it) end here.
PageDone ==
    /\ pc = "fetched"
    /\ location_posts' = ExtendPosts(location_posts, fetch_ret.posts)
    /\ IF fetch_ret.end
       THEN /\ pc' = "endloc"
            /\ UNCHANGED page
       ELSE /\ pc' = "page"
            /\ page' = page + 1
    /\ fetch_ret' = NoRet
    /\ attempt' = 0
    /\ pageHttp' = 0
    /\ backoff' = 0
    /\ lastSleep' = 0
    /\ lastResp' = NoResp
    /\ UNCHANGED << inputs, locations, locIdx, locationVars, api_url,
                    all_weibo_data, stats, result, output_written, httpCount,
                    fetchCount, requested, locOrder, returned, pageSentinel, cc, wf, otherVars >>

\* After the page loop (break, or the range is exhausted).
EndLocation ==
    /\ \/ pc = "endloc"
       \/ pc = "page" /\ ~InPageRange(page)
    /\ all_weibo_data' = all_weibo_data \o location_posts
    /\ locIdx' = locIdx + 1
    /\ pc' = "location"
    /\ UNCHANGED << inputs, locations, locationVars, page, api_url, attempt,
                    fetch_ret, location_posts, stats, result, output_written,
                    history, cc, wf, otherVars >>

\* After the location loop: save the results if there are any.
SaveResults ==
    /\ pc = "location"
    /\ locIdx > Len(locations)
    /\ output_written' = (all_weibo_data # << >>)
    /\ result' = (all_weibo_data # << >>)
    /\ pc' = "done"
    /\ UNCHANGED << inputs, locations, locIdx, locationVars, page, api_url,
                    attempt, fetch_ret, location_posts, all_weibo_data, stats,
                    history, cc, wf, otherVars >>

CollectorNext ==
    \/ StartCollect
    \/ NextLocation
    \/ BeginFetch
    \/ Attempt
    \/ PageDone
    \/ EndLocation
    \/ SaveResults

CoordParked == cc = "parked"

WorkflowParked == wf = "parked"

OthersParked == fc = "parked" /\ ug = "parked" /\ ex = "parked"

Init == CollectorInit /\ CoordParked /\ WorkflowParked /\ OthersParked

Next == CollectorNext

Spec == Init /\ [][Next]_vars

\* The collector runs on as long as it has a step to take.
FairSpec == Init /\ [][Next]_vars /\ WF_vars(Next)


\* ---------------------------------------------------------------------
\* Properties of the collector
\* ---------------------------------------------------------------------
InPageLoop == pc \in {"page", "attempt", "fetched", "endloc"}

PageLoopOver == pc = "endloc" \/ (pc = "page" /\ ~InPageRange(page))

LastRequested == IF requested = << >> THEN 0 ELSE requested[Len(requested)]

NumLocations == Len(Unique(csv.rows, << >>))

\* C1: for every location the pages requested are 1, 2, 3, ... without
\* gaps and never above max_pages_to_test; the next page of a location is
\* fetched only if no response to the page before it carried the sentinel
\* (ok == 0 and msg == 'no content'), so no page after the sentinel page is
\* requested; and the page loop of a location is over exactly when the last
\* page requested answered with the sentinel or was page max_pages_to_test.
C1_StopsAtSentinelOrCap ==
    /\ [](/\ \A i \in 1..Len(requested) : requested[i] = i
          /\ Len(requested) <= max_pages_to_test
          /\ PageLoopOver => (pageSentinel \/ LastRequested = max_pages_to_test))
    /\ [][fetchCount' = fetchCount + 1 => ~pageSentinel]_vars

\* C2: one fetch issues at most retry_count HTTP requests; every failed
\* attempt consumes exactly one attempt; the fetch returns at the first
\* attempt that succeeds, and after retry_count failures it returns
\* ([], False).
C2_RetryBudget ==
    /\ pageHttp <= retry_count
    /\ pc = "attempt" =>
          /\ pageHttp = attempt
          /\ attempt < retry_count
          /\ lastResp.outcome # "ok"
    /\ pc = "fetched" =>
          \/ lastResp.outcome = "ok" /\ pageHttp = attempt + 1
          \/ /\ lastResp.outcome = "fail"
             /\ pageHttp = retry_count
             /\ fetch_ret = NoRet

C2_BudgetExhausted ==
    /\ pc = "fetched"
    /\ lastResp.outcome = "fail"
    /\ pageHttp = retry_count
    /\ stats.failed_requests = 1

C4_SequentialAccumulation ==
    /\ Len(locOrder) <= Len(locations)
    /\ \A i \in 1..Len(locOrder) : locOrder[i] = locations[i]
    /\ InPageLoop => Len(locOrder) \in {locIdx - 1, locIdx}
    /\ pc # "fetched" => location_posts = returned
    /\ pc = "fetched" => location_posts \o fetch_ret.posts = returned
    /\ InPageLoop =>
          \A i \in 1..Len(location_posts) : location_posts[i].location = Location

C4_SecondLocationTwoPages ==
    /\ PageLoopOver
    /\ locIdx = 2
    /\ all_weibo_data # << >>
    /\ Len(requested) = 2
    /\ Len(location_posts) >= 3
    /\ location_posts[1] # location_posts[2]

\* C5: the collection always terminates, and for L locations it makes at
\* most L * max_pages_to_test fetches and at most
\* L * max_pages_to_test * retry_count HTTP requests.
C5_TerminatesWithinBudget ==
    /\ <>(pc = "done")
    /\ [](/\ fetchCount <= NumLocations * max_pages_to_test
          /\ httpCount <= NumLocations * max_pages_to_test * retry_count)

C5_BudgetUsedUp ==
    /\ pc = "done"
    /\ NumLocations = 2
    /\ fetchCount = NumLocations * max_pages_to_test
    /\ httpCount = NumLocations * max_pages_to_test * retry_count

\* C6: an HTTP-200 response whose body parses as JSON is never retried and
\* never makes the fetch fail, whatever its shape: the attempt that received
\* it counts as successful.
C6_ParsedBodyNeverFails ==
    lastResp.class = "parsed" => lastResp.outcome = "ok"

\* C15: with an empty cookie string or a CSV without an API_URL column the
\* collection returns False, issues no HTTP request, leaves the request
\* statistics as they were and writes no output file.
C15_RefusedWithoutEffects ==
    (cookies = "" \/ ~csv.hasApiUrl) =>
        /\ pc \in { "start", "done" }
        /\ pc = "done" => result = FALSE
        /\ httpCount = 0
        /\ fetchCount = 0
        /\ stats = NoStats
        /\ ~output_written
        /\ all_weibo_data = << >>

\* a run refused for exactly one of the two reasons has returned
C15_RefusedRunOver ==
    /\ pc = "done"
    /\ (cookies = "") # (~csv.hasApiUrl)
    /\ csv.rows = MixedRows

\* the fetch of the current page has returned after failing on every attempt
FetchExhausted == pc = "fetched" /\ lastResp.outcome = "fail"

\* C16: a page whose fetch failed on every attempt reports no end of data
\* and no posts, adds nothing to the location's posts, and is followed by the
\* request of the next page while the page cap allows one.
C16_FailedPageGoesOn ==
    /\ [](FetchExhausted =>
             /\ pageHttp = retry_count
             /\ fetch_ret.end = FALSE
             /\ fetch_ret.posts = << >>)
    /\ [][FetchExhausted =>
             /\ location_posts' = location_posts
             /\ locIdx' = locIdx
             /\ page' = page + 1
             /\ pc' = "page"]_vars
    /\ [][(pc = "page" /\ page <= max_pages_to_test) =>
             /\ pc' = "attempt"
             /\ page' = page
             /\ fetchCount' = fetchCount + 1]_vars

\* page 1 of the first location failed on every attempt and page 2 is being
\* requested
C16_NextPageAfterFailure ==
    /\ pc = "attempt"
    /\ locIdx = 1
    /\ page = 2
    /\ pageHttp = 1
    /\ stats.failed_requests = 1
    /\ stats.successful_requests = 0

\* C18: fetch_weibo_data_from_api returns is_end_of_data = True only for an
\* HTTP-200 response carrying the sentinel, and then with an empty post list.
C18_EndOnlyAtSentinel ==
    (pc = "fetched" /\ fetch_ret.end) =>
        /\ lastResp.class = "parsed"
        /\ lastResp.sentinel
        /\ lastResp.outcome = "ok"
        /\ fetch_ret.posts = << >>

\* the fetch of page 2 returned is_end_of_data = True on its second attempt
C18_EndReturned ==
    /\ pc = "fetched"
    /\ fetch_ret.end
    /\ page = 2
    /\ pageHttp = 2

\* the rows of the input CSV that belong to the current location
LocationRowIndexes == { i \in 1..Len(csv.rows) : csv.rows[i].Location = Location }

\* C20: the URL requested for page p of a location is the API_URL of the
\* location's CSV row with Page = p when there is one; otherwise it is the
\* API_URL of the location's first row (the one with the lowest Page) cut
\* before its first '&page=' and followed by '&page=p'.
C20_UrlOfRequestedPage ==
    pc \in { "attempt", "fetched" } =>
        LET samePage == { i \in LocationRowIndexes : csv.rows[i].Page = page }
            first == CHOOSE i \in LocationRowIndexes :
                        \A j \in LocationRowIndexes : csv.rows[i].Page <= csv.rows[j].Page
        IN IF samePage # { }
           THEN \E i \in samePage : api_url = csv.rows[i].API_URL
           ELSE /\ api_url.pre = csv.rows[first].API_URL.pre
                /\ api_url.page = page
                /\ api_url.post = FALSE

\* page 2 of a location whose CSV rows are for pages 1 and 3 is requested
\* with a generated URL
C20_GapPageGenerated ==
    /\ pc = "attempt"
    /\ page = 2
    /\ current_max_page = 3
    /\ api_url.page = 2

\* the Coordinates value of the lowest-page CSV row of a location
FirstRowCoordinates(location) ==
    LET own == { i \in 1..Len(csv.rows) : csv.rows[i].Location = location }
        first == CHOOSE i \in own : \A j \in own : csv.rows[i].Page <= csv.rows[j].Page
    IN csv.rows[first].Coordinates

\* a post carries the given location and that location's coordinates
Tagged(post, location) ==
    /\ post.location = location
    /\ post.coordinates = FirstRowCoordinates(location)

\* C21: every accumulated post record carries the location whose page
\* produced it and the Coordinates value of that location's lowest-page CSV
\* row: the posts a fetch returns and the posts of the current location
\* carry the current location, the posts of the whole run carry a location
\* already processed, and the run's list grows only by the current
\* location's posts.
C21_PostsCarryLocationAndCoordinates ==
    /\ [](pc = "fetched" =>
             \A i \in 1..Len(fetch_ret.posts) : Tagged(fetch_ret.posts[i], Location))
    /\ [](InPageLoop =>
             \A i \in 1..Len(location_posts) : Tagged(location_posts[i], Location))
    /\ [](\A i \in 1..Len(all_weibo_data) :
             \E k \in 1..Len(locOrder) : Tagged(all_weibo_data[i], locOrder[k]))
    /\ [][all_weibo_data' # all_weibo_data =>
             all_weibo_data' = all_weibo_data \o location_posts]_vars

\* a finished run over the hand-made rows has posts of both locations;
\* those of location 1 carry the coordinates of its page-1 row, which is
\* not its first row in the file
C21_BothLocationsTagged ==
    /\ pc = "done"
    /\ csv.rows = MixedRows
    /\ \E i, j \in 1..Len(all_weibo_data) :
          /\ all_weibo_data[i].location = 1
          /\ all_weibo_data[i].coordinates = 11
          /\ all_weibo_data[j].location = 2
          /\ all_weibo_data[j].coordinates = 12


\* =====================================================================
\* AmapCoordinateCollector
\* =====================================================================
MaxCoordRows == 2

MaxRuns == 2

LocationNames == {1, 2}

\* What the picker page shows for a searched location. A coordinate text is
\* 'lng,lat'; the numbers are held in thousandths of a degree.
Lookup(kind, lng, lat) == [kind |-> kind, lng |-> lng, lat |-> lat]

\* No value in this set lies exactly halfway between two hundredths.
Longitudes == {1204, 1196, 1212}

Latitudes == {4, -4}

Lookups ==
    { Lookup(k, 0, 0) : k \in {"notfound", "timeout", "empty", "nocomma", "nonnumeric"} }
    \cup { Lookup("coords", lng, lat) : lng \in Longitudes, lat \in Latitudes }

Abs(x) == IF x < 0 THEN -x ELSE x

\* round(x, 2) followed by f"{x:.2f}": the sign and the hundredths that are
\* printed. round() keeps the sign of a negative number that rounds to zero,
\* so -0.004 prints as '-0.00'.
Fmt2(x) ==
    LET q == Abs(x) \div 10
        r == Abs(x) % 10
        up == r > 5 \/ (r = 5 /\ q % 2 = 1)
    IN [neg |-> x < 0, cents |-> IF up THEN q + 1 ELSE q]

\* coord_key = f"{lng:.2f},{lat:.2f}"
CoordKey(lng, lat) == << Fmt2(lng), Fmt2(lat) >>

None == [neg |-> FALSE, cents |-> -1]

NonePair == << None, None >>

\* coord_key in self.collected_coordinates
IsDuplicate(reg, key) == key \in DOMAIN reg

\* A registry that forgets what it is told.
RegisterKey_Forget(reg, key, name) == reg

\* self.collected_coordinates[coord_key] = location_name
RegisterKey(reg, key, name) ==
    [k \in DOMAIN reg \cup {key} |-> IF k = key THEN name ELSE reg[k]]

\* get_coordinates: the returned tuple (lat, lng) and the registry afterwards.
get_coordinates(reg, name, lookup) ==
    IF lookup.kind # "coords"
    THEN [ret |-> NonePair, reg |-> reg]
    ELSE LET key == CoordKey(lookup.lng, lookup.lat) IN
         IF IsDuplicate(reg, key)
         THEN [ret |-> NonePair, reg |-> reg]
         ELSE [ret |-> << Fmt2(lookup.lat), Fmt2(lookup.lng) >>,
               reg |-> RegisterKey(reg, key, name)]

\* The input CSVs: with or without a Location column, one to MaxCoordRows rows.
CoordInputs ==
    [hasLocation : BOOLEAN,
     rows : UNION { [1..n -> LocationNames] : n \in 1..MaxCoordRows }]

EmptyReg == [k \in {} |-> 0]

NoLookup == [resolved |-> FALSE, key |-> << None, None >>, known |-> FALSE,
             ret |-> NonePair, name |-> 0]

\* if coords: a tuple is true unless it is empty
Truthy(t) == Len(t) > 0

ResultRow(name, lat, lng, key) ==
    [Location |-> name, Latitude |-> lat, Longitude |-> lng, Coordinates |-> key]

EmptyRow(name) == ResultRow(name, None, None, << None, None >>)

CoordInit ==
    cc = [pc |-> "idle", input |-> << >>, idx |-> 0, results |-> << >>,
          collected_coordinates |-> EmptyReg, ret |-> "none",
          output_csv |-> "none", runs |-> 0,
          given |-> EmptyReg, firstOwner |-> EmptyReg, last |-> NoLookup]

\* collect_coordinates_from_csv up to the loop: read the CSV, start the driver.
CoordStart ==
    /\ cc.pc = "idle"
    /\ cc.runs < MaxRuns
    /\ \E input \in CoordInputs, driverOk \in BOOLEAN :
          cc' = IF ~input.hasLocation \/ ~driverOk
                THEN [cc EXCEPT !.runs = @ + 1, !.ret = FALSE, !.input = input.rows,
                                !.idx = 0, !.results = << >>, !.last = NoLookup]
                ELSE [cc EXCEPT !.runs = @ + 1, !.ret = "none", !.input = input.rows,
                                !.idx = 1, !.results = << >>, !.last = NoLookup,
                                !.pc = "loop"]
    /\ UNCHANGED << collectorVars, wf, otherVars >>

\* One pass of the loop over the rows: look the location up, record the row.
\* Formatting a None latitude raises TypeError, which ends the collection.
CoordRow ==
    /\ cc.pc = "loop"
    /\ cc.idx <= Len(cc.input)
    /\ \E lookup \in Lookups :
          LET name == cc.input[cc.idx]
              g == get_coordinates(cc.collected_coordinates, name, lookup)
              coords == g.ret
              key == CoordKey(lookup.lng, lookup.lat)
              resolved == lookup.kind = "coords"
              hist == [resolved |-> resolved,
                       key |-> IF resolved THEN key ELSE << None, None >>,
                       known |-> resolved /\ key \in DOMAIN cc.firstOwner,
                       ret |-> coords, name |-> name]
              given == IF coords # NonePair
                       THEN [k \in DOMAIN cc.given \cup {key} |->
                                IF k \in DOMAIN cc.given
                                THEN cc.given[k] + (IF k = key THEN 1 ELSE 0)
                                ELSE 1]
                       ELSE cc.given
              owner == IF resolved /\ key \notin DOMAIN cc.firstOwner
                       THEN [k \in DOMAIN cc.firstOwner \cup {key} |->
                                IF k = key THEN name ELSE cc.firstOwner[k]]
                       ELSE cc.firstOwner
          IN cc' = IF Truthy(coords)
                   THEN IF coords[1] = None \/ coords[2] = None
                        THEN [cc EXCEPT !.collected_coordinates = g.reg,
                                        !.given = given, !.firstOwner = owner,
                                        !.last = hist, !.ret = FALSE, !.pc = "idle"]
                        ELSE [cc EXCEPT !.collected_coordinates = g.reg,
                                        !.given = given, !.firstOwner = owner,
                                        !.last = hist, !.idx = @ + 1,
                                        !.results = Append(@,
                                            ResultRow(name, coords[1], coords[2],
                                                      << coords[2], coords[1] >>))]
                   ELSE [cc EXCEPT !.collected_coordinates = g.reg,
                                   !.given = given, !.firstOwner = owner,
                                   !.last = hist, !.idx = @ + 1,
                                   !.results = Append(@, EmptyRow(name))]
    /\ UNCHANGED << collectorVars, wf, otherVars >>

\* After the loop: write the output CSV and return True.
CoordSave ==
    /\ cc.pc = "loop"
    /\ cc.idx > Len(cc.input)
    /\ cc' = [cc EXCEPT !.output_csv = cc.results, !.ret = TRUE, !.pc = "idle"]
    /\ UNCHANGED << collectorVars, wf, otherVars >>

CoordNext == CoordStart \/ CoordRow \/ CoordSave

CollectorParked ==
    /\ cookies = ""
    /\ csv = [hasApiUrl |-> FALSE, rows |-> << >>]
    /\ delay_between_requests = 0
    /\ pc = "parked"
    /\ locations = << >>
    /\ locIdx = 0
    /\ location_df = << >>
    /\ base_url_without_page = NoUrl
    /\ coordinates = 0
    /\ current_max_page = 0
    /\ page = 0
    /\ api_url = NoUrl
    /\ attempt = 0
    /\ fetch_ret = NoRet
    /\ location_posts = << >>
    /\ all_weibo_data = << >>
    /\ stats = NoStats
    /\ result = "none"
    /\ output_written = FALSE
    /\ httpCount = 0
    /\ pageHttp = 0
    /\ fetchCount = 0
    /\ backoff = 0
    /\ lastSleep = 0
    /\ requested = << >>
    /\ locOrder = << >>
    /\ returned = << >>
    /\ pageSentinel = FALSE
    /\ lastResp = NoResp

InitCoord == CollectorParked /\ CoordInit /\ WorkflowParked /\ OthersParked

SpecCoord == InitCoord /\ [][CoordNext]_vars

\* C7: a location whose lookup fails is recorded as a row with empty
\* Latitude, Longitude and Coordinates, and processing goes on with the
\* remaining locations (so that the CSV written at the end has one row per
\* input location).
C7_FailedLookupRecorded ==
    (cc.last.name # 0 /\ cc.last.ret = NonePair) =>
        /\ cc.pc = "loop"
        /\ Len(cc.results) = cc.idx - 1
        /\ cc.results[Len(cc.results)] = EmptyRow(cc.last.name)

\* C8: within one collector instance get_coordinates returns a coordinate
\* pair for a 2-decimal 'lng,lat' key at most once; the registry maps every
\* key to the first location that resolved to it; a later location resolving
\* to a key already registered gets (None, None); and the registry is never
\* shrunk or overwritten.
C8_KeyGivenOnce ==
    /\ [](/\ \A k \in DOMAIN cc.given : cc.given[k] = 1
          /\ cc.collected_coordinates = cc.firstOwner
          /\ (cc.last.resolved /\ cc.last.known) => cc.last.ret = NonePair
          /\ (cc.last.resolved /\ ~cc.last.known) => cc.last.ret # NonePair)
    /\ [][\A k \in DOMAIN cc.collected_coordinates :
             /\ k \in DOMAIN cc'.collected_coordinates
             /\ cc'.collected_coordinates[k] = cc.collected_coordinates[k]]_vars

C8_DuplicateRefused ==
    /\ cc.last.resolved
    /\ cc.last.known
    /\ cc.last.ret = NonePair
    /\ cc.last.name # cc.collected_coordinates[cc.last.key]
    /\ Cardinality(DOMAIN cc.collected_coordinates) >= 2


\* =====================================================================
\* The workflow menu (src/src/utils/workflow.py)
\* =====================================================================
MaxInputs == 3

\* Which of the files the workflow looks at exist.
FileStates ==
    [locations : BOOLEAN, coordinates : BOOLEAN, api_urls : BOOLEAN,
     collected_data : BOOLEAN, cookies : BOOLEAN]

\* detect_existing_files
detect_existing_files(files) == files

\* A menu that keeps its first picture of the files.
Redetect_Stale(files, old) == old

\* existing_files = detect_existing_files() after show_individual_steps_menu()
Redetect(files, old) == detect_existing_files(files)

\* get_workflow_options: the numbers of the options, in the order printed
get_workflow_options(existing_files) ==
    << 1 >>
    \o (IF existing_files.coordinates THEN << 2 >> ELSE << >>)
    \o (IF existing_files.api_urls THEN << 3 >> ELSE << >>)
    \o << 4, 5, 6 >>

\* What is typed at a prompt: a text, possibly surrounded by blanks.
\* "7" stands for every text that is none of "1" .. "6".
RawInputs == [text : {"1", "2", "3", "4", "5", "6", "7"}, padded : BOOLEAN]

\* input(...).strip()
Strip(raw) == raw.text

Number(text) ==
    CASE text = "1" -> 1 [] text = "2" -> 2 [] text = "3" -> 3
      [] text = "4" -> 4 [] text = "5" -> 5 [] text = "6" -> 6 [] OTHER -> 7

\* The if / elif chain of main()
MenuBranch(choice, existing_files) ==
    IF choice = "1" THEN "complete"
    ELSE IF choice = "2" /\ existing_files.coordinates THEN "from_coordinates"
    ELSE IF choice = "3" /\ existing_files.api_urls THEN "from_api_urls"
    ELSE IF choice = "4" THEN "individual"
    ELSE IF choice = "5" THEN "summary"
    ELSE IF choice = "6" THEN "exit"
    ELSE "invalid"

\* What a stage leaves behind: its return value, the files, whether a
\* WeiboDataCollector was made, and whether that collector sent requests.
Outcome(ret, files, built) ==
    [ret |-> ret, files |-> files, built |-> built, requests |-> FALSE]

\* collector = WeiboDataCollector(...); collector.collect_weibo_data_from_csv(...)
Collected(ret, files, requests) ==
    [ret |-> ret, files |-> files, built |-> TRUE, requests |-> requests]

\* step1_collect_coordinates: without the input file a template is written
\* and the step fails; otherwise the collector runs and, when it succeeds,
\* has written the coordinates file (a failing run may leave one behind).
step1_collect_coordinates(files) ==
    IF ~files.locations
    THEN { Outcome(FALSE, [files EXCEPT !.locations = TRUE], FALSE) }
    ELSE { Outcome(TRUE, [files EXCEPT !.coordinates = TRUE], FALSE),
           Outcome(FALSE, files, FALSE),
           Outcome(FALSE, [files EXCEPT !.coordinates = TRUE], FALSE) }

\* step2_generate_urls
step2_generate_urls(files) ==
    IF ~files.coordinates
    THEN { Outcome(FALSE, files, FALSE) }
    ELSE { Outcome(TRUE, [files EXCEPT !.api_urls = TRUE], FALSE),
           Outcome(FALSE, files, FALSE),
           Outcome(FALSE, [files EXCEPT !.api_urls = TRUE], FALSE) }

\* A step 3 that does not look for the cookie file.
step3_collect_data_NoCookieCheck(files) ==
    IF ~files.api_urls THEN { Outcome(FALSE, files, FALSE) }
    ELSE { Collected(TRUE, [files EXCEPT !.collected_data = TRUE], TRUE),
           Collected(FALSE, files, TRUE),
           Collected(FALSE, files, FALSE),
           Collected(FALSE, [files EXCEPT !.collected_data = TRUE], TRUE) }

\* step3_collect_data: without the API-URL file or the cookie file it
\* returns False at once; otherwise a collector is made and run. A run that
\* returns True has collected posts and written them; a run that returns
\* False may have sent requests or none (it refuses an empty cookie text).
step3_collect_data(files) ==
    IF ~files.api_urls THEN { Outcome(FALSE, files, FALSE) }
    ELSE IF ~files.cookies THEN { Outcome(FALSE, files, FALSE) }
    ELSE { Collected(TRUE, [files EXCEPT !.collected_data = TRUE], TRUE),
           Collected(FALSE, files, TRUE),
           Collected(FALSE, files, FALSE),
           Collected(FALSE, [files EXCEPT !.collected_data = TRUE], TRUE) }

\* A workflow that goes on whatever the stage returned.
RunsNext_Always(ret) == TRUE

\* if step1_collect_coordinates(): ... / if step2_generate_urls(): ...
RunsNext(ret) == ret

AllFalse ==
    [locations |-> FALSE, coordinates |-> FALSE, api_urls |-> FALSE,
     collected_data |-> FALSE, cookies |-> FALSE]

NoInput == [menu |-> "none", choice |-> 0, offered |-> FALSE, acted |-> FALSE,
            changed |-> FALSE]

WorkflowInit ==
    \E files \in FileStates :
       wf = [pc |-> "start", files |-> files, existing_files |-> AllFalse,
             options |-> << >>, mode |-> "none", log |-> << >>,
             collectors |-> 0, inputs |-> 0, last |-> NoInput]

\* What running a stage leaves behind.
AfterStage(w, stage, o) ==
    [w EXCEPT !.files = o.files,
              !.log = Append(@, [stage |-> stage, ret |-> o.ret, built |-> o.built,
                                  requests |-> o.requests]),
              !.collectors = IF o.built THEN 1 ELSE @]

Read(w, menu, choice, acted) ==
    [w EXCEPT !.inputs = @ + 1,
              !.last = [menu |-> menu, choice |-> Number(choice),
                        offered |-> Number(choice) \in Range(w.options),
                        acted |-> acted, changed |-> FALSE]]

\* main() up to the first prompt
MainStart ==
    /\ wf.pc = "start"
    /\ \E depsOk \in BOOLEAN :
          wf' = IF ~depsOk THEN [wf EXCEPT !.pc = "done"]
                ELSE LET ef == detect_existing_files(wf.files) IN
                     [wf EXCEPT !.existing_files = ef,
                                !.options = get_workflow_options(ef),
                                !.pc = "menu"]
    /\ UNCHANGED << collectorVars, cc, otherVars >>

AtMenu(raw, branch) ==
    /\ wf.pc = "menu"
    /\ wf.inputs < MaxInputs
    /\ MenuBranch(Strip(raw), wf.existing_files) = branch

\* choice 1: the complete workflow starts with step 1
ChooseComplete ==
    /\ \E raw \in RawInputs :
          /\ AtMenu(raw, "complete")
          /\ \E o \in step1_collect_coordinates(wf.files) :
                LET w == AfterStage([Read(wf, "main", Strip(raw), TRUE)
                                        EXCEPT !.mode = "complete", !.log = << >>],
                                    1, o)
                IN wf' = [w EXCEPT !.pc = IF RunsNext(o.ret) THEN "c1_step2" ELSE "done"]
    /\ UNCHANGED << collectorVars, cc, otherVars >>

CompleteStep2 ==
    /\ wf.pc = "c1_step2"
    /\ \E o \in step2_generate_urls(wf.files) :
          wf' = [AfterStage(wf, 2, o) EXCEPT
                    !.pc = IF RunsNext(o.ret) THEN "c1_step3" ELSE "done"]
    /\ UNCHANGED << collectorVars, cc, otherVars >>

CompleteStep3 ==
    /\ wf.pc = "c1_step3"
    /\ \E o \in step3_collect_data(wf.files) :
          wf' = [AfterStage(wf, 3, o) EXCEPT !.pc = "done"]
    /\ UNCHANGED << collectorVars, cc, otherVars >>

\* choice 2: workflow_from_coordinates starts with step 2
ChooseFromCoordinates ==
    /\ \E raw \in RawInputs :
          /\ AtMenu(raw, "from_coordinates")
          /\ \E o \in step2_generate_urls(wf.files) :
                LET w == AfterStage([Read(wf, "main", Strip(raw), TRUE)
                                        EXCEPT !.mode = "from_coordinates", !.log = << >>],
                                    2, o)
                IN wf' = [w EXCEPT !.pc = IF RunsNext(o.ret) THEN "c2_step3" ELSE "done"]
    /\ UNCHANGED << collectorVars, cc, otherVars >>

FromCoordinatesStep3 ==
    /\ wf.pc = "c2_step3"
    /\ \E o \in step3_collect_data(wf.files) :
          wf' = [AfterStage(wf, 3, o) EXCEPT !.pc = "done"]
    /\ UNCHANGED << collectorVars, cc, otherVars >>

\* choice 3: workflow_from_api_urls
ChooseFromApiUrls ==
    /\ \E raw \in RawInputs :
          /\ AtMenu(raw, "from_api_urls")
          /\ \E o \in step3_collect_data(wf.files) :
                LET w == AfterStage([Read(wf, "main", Strip(raw), TRUE)
                                        EXCEPT !.mode = "from_api_urls", !.log = << >>],
                                    3, o)
                IN wf' = [w EXCEPT !.pc = "done"]
    /\ UNCHANGED << collectorVars, cc, otherVars >>

\* choice 4: the individual-steps menu is shown
ChooseIndividual ==
    /\ \E raw \in RawInputs :
          /\ AtMenu(raw, "individual")
          /\ wf' = [Read(wf, "main", Strip(raw), TRUE) EXCEPT
                       !.mode = "individual", !.log = << >>, !.pc = "indiv"]
    /\ UNCHANGED << collectorVars, cc, otherVars >>

\* Back in main() after show_individual_steps_menu(): detect, list, prompt.
BackToMain(w) ==
    LET ef == Redetect(w.files, w.existing_files) IN
    [w EXCEPT !.existing_files = ef,
              !.options = get_workflow_options(ef),
              !.last.changed = (get_workflow_options(ef) # w.options),
              !.pc = "menu"]

\* The individual-steps menu runs one step and returns.
IndividualStep ==
    /\ wf.pc = "indiv"
    /\ wf.inputs < MaxInputs
    /\ \E raw \in RawInputs :
          \/ /\ Strip(raw) = "1"
             /\ \E o \in step1_collect_coordinates(wf.files) :
                   wf' = BackToMain(AfterStage(Read(wf, "indiv", Strip(raw), TRUE), 1, o))
          \/ /\ Strip(raw) = "2"
             /\ \E o \in step2_generate_urls(wf.files) :
                   wf' = BackToMain(AfterStage(Read(wf, "indiv", Strip(raw), TRUE), 2, o))
          \/ /\ Strip(raw) = "3"
             /\ \E o \in step3_collect_data(wf.files) :
                   wf' = BackToMain(AfterStage(Read(wf, "indiv", Strip(raw), TRUE), 3, o))
    /\ UNCHANGED << collectorVars, cc, otherVars >>

IndividualBack ==
    /\ wf.pc = "indiv"
    /\ wf.inputs < MaxInputs
    /\ \E raw \in RawInputs :
          /\ Strip(raw) = "4"
          /\ wf' = BackToMain(Read(wf, "indiv", Strip(raw), TRUE))
    /\ UNCHANGED << collectorVars, cc, otherVars >>

IndividualInvalid ==
    /\ wf.pc = "indiv"
    /\ wf.inputs < MaxInputs
    /\ \E raw \in RawInputs :
          /\ Strip(raw) \notin {"1", "2", "3", "4"}
          /\ wf' = Read(wf, "indiv", Strip(raw), FALSE)
    /\ UNCHANGED << collectorVars, cc, otherVars >>

\* choice 5: show_summary, and choice 6: leave
ChooseSummary ==
    /\ \E raw \in RawInputs :
          /\ AtMenu(raw, "summary")
          /\ wf' = [Read(wf, "main", Strip(raw), TRUE) EXCEPT
                       !.mode = "summary", !.log = << >>, !.pc = "done"]
    /\ UNCHANGED << collectorVars, cc, otherVars >>

ChooseExit ==
    /\ \E raw \in RawInputs :
          /\ AtMenu(raw, "exit")
          /\ wf' = [Read(wf, "main", Strip(raw), TRUE) EXCEPT
                       !.mode = "exit", !.log = << >>, !.pc = "done"]
    /\ UNCHANGED << collectorVars, cc, otherVars >>

\* anything else: "Invalid choice", and the prompt again
InvalidChoice ==
    /\ \E raw \in RawInputs :
          /\ AtMenu(raw, "invalid")
          /\ wf' = Read(wf, "main", Strip(raw), FALSE)
    /\ UNCHANGED << collectorVars, cc, otherVars >>

WorkflowNext ==
    \/ MainStart
    \/ ChooseComplete
    \/ CompleteStep2
    \/ CompleteStep3
    \/ ChooseFromCoordinates
    \/ FromCoordinatesStep3
    \/ ChooseFromApiUrls
    \/ ChooseIndividual
    \/ IndividualStep
    \/ IndividualBack
    \/ IndividualInvalid
    \/ ChooseSummary
    \/ ChooseExit
    \/ InvalidChoice

InitWorkflow == CollectorParked /\ CoordParked /\ WorkflowInit /\ OthersParked

SpecWorkflow == InitWorkflow /\ [][WorkflowNext]_vars

\* C9: in the complete workflow the stages run in the order coordinate
\* collection, URL generation, data collection, and a stage runs only after
\* the stage before it returned success.
C9_StagesInOrder ==
    wf.mode = "complete" =>
        /\ Len(wf.log) <= 3
        /\ \A i \in 1..Len(wf.log) : wf.log[i].stage = i
        /\ \A i \in 1..(Len(wf.log) - 1) : wf.log[i].ret = TRUE

C9_AllThreeStagesRan ==
    /\ wf.mode = "complete"
    /\ wf.pc = "done"
    /\ Len(wf.log) = 3
    /\ wf.log[3].ret = TRUE

\* The options the menu should list for a picture of the files.
Offered(existing_files) ==
    {1, 4, 5, 6}
    \cup (IF existing_files.coordinates THEN {2} ELSE {})
    \cup (IF existing_files.api_urls THEN {3} ELSE {})

\* C10: the menu offers and accepts choice 2 only if the coordinates file
\* existed, and choice 3 only if the API-URL file existed, at the last file
\* detection, and always offers 1, 4, 5 and 6; the files are detected again
\* after every return from the individual-steps menu; the choices acted on
\* are the options last displayed, and any other input is rejected and
\* prompted for again.
C10_MenuMatchesFiles ==
    /\ wf.pc \in {"menu", "indiv"} =>
          /\ Range(wf.options) = Offered(wf.existing_files)
          /\ \A t \in {"1", "2", "3", "4", "5", "6", "7"} :
                (MenuBranch(t, wf.existing_files) # "invalid")
                    <=> (Number(t) \in Range(wf.options))
    /\ wf.pc = "menu" => wf.existing_files = wf.files
    /\ wf.last.menu = "main" =>
          /\ wf.last.acted <=> wf.last.offered
          /\ ~wf.last.offered => wf.pc = "menu"

C10_OptionsChangedAfterStep ==
    /\ wf.pc = "menu"
    /\ wf.last.menu = "indiv"
    /\ wf.last.changed
    /\ 2 \in Range(wf.options)

\* a step in which step3_collect_data is called
Step3Called ==
    \/ CompleteStep3
    \/ FromCoordinatesStep3
    \/ ChooseFromApiUrls
    \/ IndividualStep /\ wf'.last.menu = "indiv" /\ wf'.last.choice = 3

\* C22: step3_collect_data called without the API-URL file or without the
\* cookie file returns False, makes no collector, sends no request and
\* leaves the files as they are; a collector is made, and requests are
\* sent, only in a call that found both files.
C22_Step3NeedsBothFiles ==
    [][Step3Called =>
          LET call == wf'.log[Len(wf'.log)]
              missing == ~wf.files.api_urls \/ ~wf.files.cookies
          IN /\ call.stage = 3
             /\ missing => /\ call.ret = FALSE
                           /\ ~call.built
                           /\ ~call.requests
                           /\ wf'.collectors = wf.collectors
                           /\ wf'.files = wf.files
             /\ (call.built \/ call.requests \/ call.ret) => ~missing]_vars

\* step 3 was reached with the API-URL file but without the cookie file,
\* and returned False without a collector
C22_RefusedWithoutCookieFile ==
    /\ wf.log # << >>
    /\ wf.log[Len(wf.log)].stage = 3
    /\ wf.log[Len(wf.log)].ret = FALSE
    /\ ~wf.log[Len(wf.log)].built
    /\ wf.files.api_urls
    /\ ~wf.files.cookies
    /\ wf.collectors = 0

(***************************************************************************)
(* FileConverter (src/src/utils/file_converter.py).                        *)
(* Strings are sequences of one-character strings, so that the substring   *)
(* tests on column names and the regular expression on coordinates are     *)
(* computed character by character.                                        *)
(***************************************************************************)
MaxFileRows == 2

UpperCase == << "A","B","C","D","E","F","G","H","I","J","K","L","M",
                "N","O","P","Q","R","S","T","U","V","W","X","Y","Z" >>

LowerCase == << "a","b","c","d","e","f","g","h","i","j","k","l","m",
                "n","o","p","q","r","s","t","u","v","w","x","y","z" >>

\* str.lower(), one character
LowerChar(c) ==
    IF \E i \in 1..26 : UpperCase[i] = c
    THEN LowerCase[CHOOSE i \in 1..26 : UpperCase[i] = c]
    ELSE c

\* str.lower()
Lower(str) == [i \in 1..Len(str) |-> LowerChar(str[i])]

\* sub in str
Contains(sub, str) ==
    \E i \in 0..(Len(str) - Len(sub)) : SubSeq(str, i + 1, i + Len(sub)) = sub

\* column names
ColLocation    == << "L","o","c","a","t","i","o","n" >>
ColCoordinates == << "C","o","o","r","d","i","n","a","t","e","s" >>
ColLatitude    == << "L","a","t","i","t","u","d","e" >>
ColLongitude   == << "L","o","n","g","i","t","u","d","e" >>
ColLat         == << "l","a","t" >>
ColLng         == << "l","n","g" >>
ColLatitudeLc  == << "l","a","t","i","t","u","d","e" >>
ColLongitudeLc == << "l","o","n","g","i","t","u","d","e" >>
ColPopulation  == << "P","o","p","u","l","a","t","i","o","n" >>
ColName        == << "N","a","m","e" >>

\* cells of a DataFrame as pd.read_csv gives them: a column holds strings
\* (object, missing cells NaN), 64-bit integers, or floats
Text(str) == [k |-> "text", s |-> str]

NaN == [k |-> "nan"]

Int64(neg, n) == [k |-> "int", neg |-> neg, n |-> n]

Float64(neg, whole, frac) == [k |-> "float", neg |-> neg, whole |-> whole, frac |-> frac]

DigitChars == << "0","1","2","3","4","5","6","7","8","9" >>

RECURSIVE Digits(_)
Digits(n) == IF n < 10 THEN << DigitChars[n + 1] >>
             ELSE Digits(n \div 10) \o << DigitChars[(n % 10) + 1] >>

Sign(neg) == IF neg THEN << "-" >> ELSE << >>

\* str(value) / Series.astype(str)
Str(v) ==
    CASE v.k = "text"  -> v.s
      [] v.k = "nan"   -> << "n","a","n" >>
      [] v.k = "int"   -> Sign(v.neg) \o Digits(v.n)
      [] v.k = "float" -> Sign(v.neg) \o Digits(v.whole) \o << "." >> \o v.frac

\* values a column of the given name holds in the input files of the model
CellValues(col) ==
    IF col \in { ColLocation, ColName }
      THEN { Text(<< "A" >>), Text(<< "B" >>) }
    ELSE IF col \in { ColLatitude, ColLat, ColLatitudeLc }
      THEN { Float64(FALSE, 39, << "9" >>), Float64(TRUE, 7, << "5" >>) }
    ELSE IF col \in { ColLongitude, ColLongitudeLc }
      THEN { Int64(FALSE, 116), Int64(TRUE, 58) }
    ELSE IF col = ColLng
      THEN { Float64(FALSE, 116, << "3" >>), NaN }
    ELSE IF col = ColPopulation
      THEN { Int64(FALSE, 21) }
    ELSE { Text(<< "1","1","6",".","3",",","3","9",".","9" >>),     \* 116.3,39.9
           Text(<< "-","5","8",",","-","7",".","5" >>),             \* -58,-7.5
           Text(<< "i","n","v",",","c","o" >>),                     \* inv,co
           Text(<< "1","1","6",".","3" >>),                         \* 116.3
           Text(<< "1",",","2",",","3" >>),                         \* 1,2,3
           Text(<< "1",",","2","." >>),                             \* 1,2.
           Text(<< ".","5",",","1" >>),                             \* .5,1
           NaN }

Headers ==
    { << ColLocation, ColLatitude, ColLongitude >>,
      << ColLocation, ColLat, ColLng >>,
      << ColLocation, ColCoordinates >>,
      << ColLongitude, ColLatitude, ColLocation >>,
      << ColLocation, ColLatitude >>,
      << ColLocation >>,
      << ColCoordinates >>,
      << ColLocation, ColLatitudeLc, ColLongitudeLc >>,
      << ColLocation, ColPopulation, ColLatitude, ColLongitude >>,
      << ColLocation, ColLng, ColPopulation >>,
      << ColLocation, ColLng >>,
      << ColName, ColLatitude, ColLongitude >>,
      << ColLocation, ColLng, ColLatitudeLc >> }

\* the rows a CSV file with the given header can hold
RowsFor(columns) ==
    { r \in [1..Len(columns) -> UNION { CellValues(columns[i]) : i \in 1..Len(columns) }] :
        \A i \in 1..Len(columns) : r[i] \in CellValues(columns[i]) }

Frame(columns, rows) == [readable |-> TRUE, columns |-> columns, rows |-> rows]

Frames ==
    UNION { { Frame(h, rows) :
                rows \in UNION { [1..n -> RowsFor(h)] : n \in 0..MaxFileRows } } :
            h \in Headers }

\* a path at which no readable CSV file exists
NoFile == [readable |-> FALSE, columns |-> << >>, rows |-> << >>]

Unreadable == NoFile

InputFiles == Frames \cup { Unreadable }

\* 'name' in columns
HasColumn(df, name) == \E i \in 1..Len(df.columns) : df.columns[i] = name

\* df[name] of row r
Cell(df, r, name) == df.rows[r][CHOOSE i \in 1..Len(df.columns) : df.columns[i] = name]

\* next((col for col in columns if ...), None)
NoColumn == << >>

IsLatName(col) == Contains(ColLat, Lower(col))

IsLngName(col) == Contains(ColLng, Lower(col)) \/ Contains(<< "l","o","n" >>, Lower(col))

FirstLat(columns) ==
    IF \E i \in 1..Len(columns) : IsLatName(columns[i])
    THEN columns[CHOOSE i \in 1..Len(columns) :
                   /\ IsLatName(columns[i])
                   /\ \A j \in 1..(i - 1) : ~IsLatName(columns[j])]
    ELSE NoColumn

FirstLng(columns) ==
    IF \E i \in 1..Len(columns) : IsLngName(columns[i])
    THEN columns[CHOOSE i \in 1..Len(columns) :
                   /\ IsLngName(columns[i])
                   /\ \A j \in 1..(i - 1) : ~IsLngName(columns[j])]
    ELSE NoColumn

\* df[lng_col].astype(str) + ',' + df[lat_col].astype(str)
JoinCoordinates(lng, lat) == Text(Str(lng) \o << "," >> \o Str(lat))

\* df['Coordinates'] = ...; df = df[['Location', 'Coordinates']]
Standardise(df, lat_col, lng_col) ==
    Frame(<< ColLocation, ColCoordinates >>,
          [r \in 1..Len(df.rows) |->
              << Cell(df, r, ColLocation),
                 JoinCoordinates(Cell(df, r, lng_col), Cell(df, r, lat_col)) >>])

Converted(ret, output) == [ret |-> ret, output |-> output]

ConvertSeparate(df) ==
    LET lat_col == FirstLat(df.columns)
        lng_col == FirstLng(df.columns)
    IN IF lat_col # NoColumn /\ lng_col # NoColumn
       THEN Converted(TRUE, Standardise(df, lat_col, lng_col))
       ELSE Converted(FALSE, NoFile)

convert_coordinates_to_standard_format(input_file) ==
    IF ~input_file.readable THEN Converted(FALSE, NoFile)
    ELSE IF HasColumn(input_file, ColLocation) /\ HasColumn(input_file, ColCoordinates)
      THEN Converted(TRUE, input_file)
    ELSE IF /\ HasColumn(input_file, ColLocation)
            /\ (HasColumn(input_file, ColLatitude) \/ HasColumn(input_file, ColLat))
      THEN ConvertSeparate(input_file)
    ELSE IF /\ HasColumn(input_file, ColLocation)
            /\ (HasColumn(input_file, ColLat) \/ HasColumn(input_file, ColLng))
      THEN ConvertSeparate(input_file)
    ELSE Converted(FALSE, NoFile)

\* the regular expression ^-?\d+\.?\d*,-?\d+\.?\d*$ matched from the left:
\* the positions at which each piece can end
IsDigit(c) == \E i \in 1..10 : DigitChars[i] = c

At(str, i) == IF i \in 1..Len(str) THEN str[i] ELSE ""

RECURSIVE DigitRun(_, _)
DigitRun(str, i) == IF IsDigit(At(str, i)) THEN DigitRun(str, i + 1) ELSE i

\* ends of -?\d+\.?\d* started at position i (the position after the match)
NumberEnds(str, i) ==
    LET a == IF At(str, i) = "-" THEN { i, i + 1 } ELSE { i }
        b == UNION { { j \in (p + 1)..DigitRun(str, p) : TRUE } : p \in a }
        c == b \cup { j + 1 : j \in { q \in b : At(str, q) = "." } }
    IN  UNION { p..DigitRun(str, p) : p \in c }

ReMatch_Unanchored(str) ==
    \E j \in NumberEnds(str, 1) :
        /\ At(str, j) = ","
        /\ NumberEnds(str, j + 1) # { }

ReMatch(str) ==
    \E j \in NumberEnds(str, 1) :
        /\ At(str, j) = ","
        /\ (Len(str) + 1) \in NumberEnds(str, j + 1)

HasBothColumns(df) == HasColumn(df, ColLocation) /\ HasColumn(df, ColCoordinates)

validate_coordinates_file(file_path) ==
    IF ~file_path.readable THEN FALSE
    ELSE IF ~HasBothColumns(file_path) THEN FALSE
    ELSE \A r \in 1..Len(file_path.rows) :
             ReMatch(Str(Cell(file_path, r, ColCoordinates)))

create_locations_from_coordinates(coordinates_file) ==
    IF ~coordinates_file.readable THEN Converted(FALSE, NoFile)
    ELSE IF HasColumn(coordinates_file, ColLocation)
      THEN Converted(TRUE,
                     Frame(<< ColLocation >>,
                           [r \in 1..Len(coordinates_file.rows) |->
                               << Cell(coordinates_file, r, ColLocation) >>]))
    ELSE Converted(FALSE, NoFile)

ConverterInit ==
    \E f \in InputFiles :
        fc = [pc |-> "idle", op |-> "none", input |-> f, output |-> NoFile, ret |-> FALSE]

Convert ==
    /\ fc.pc = "idle"
    /\ LET c == convert_coordinates_to_standard_format(fc.input)
       IN fc' = [fc EXCEPT !.pc = "done", !.op = "convert",
                           !.output = c.output, !.ret = c.ret]
    /\ UNCHANGED << collectorVars, cc, wf, ug, ex >>

Validate ==
    /\ fc.pc = "idle"
    /\ fc' = [fc EXCEPT !.pc = "done", !.op = "validate",
                        !.ret = validate_coordinates_file(fc.input)]
    /\ UNCHANGED << collectorVars, cc, wf, ug, ex >>

CreateLocations ==
    /\ fc.pc = "idle"
    /\ LET c == create_locations_from_coordinates(fc.input)
       IN fc' = [fc EXCEPT !.pc = "done", !.op = "locations",
                           !.output = c.output, !.ret = c.ret]
    /\ UNCHANGED << collectorVars, cc, wf, ug, ex >>

ConverterNext == Convert \/ Validate \/ CreateLocations

InitConvert ==
    /\ CollectorParked /\ CoordParked /\ WorkflowParked
    /\ ConverterInit /\ ug = "parked" /\ ex = "parked"

SpecConvert == InitConvert /\ [][ConverterNext]_vars

\* the latitude and the longitude column of an input in one of the
\* documented formats (Location,Latitude,Longitude or Location,lat,lng)
LatitudeColumn(df) == IF HasColumn(df, ColLatitude) THEN ColLatitude ELSE ColLat

LongitudeColumn(df) == IF HasColumn(df, ColLongitude) THEN ColLongitude ELSE ColLng

HasLatLngColumns(df) ==
    /\ df.readable
    /\ HasColumn(df, ColLocation)
    /\ ~HasColumn(df, ColCoordinates)
    /\ HasColumn(df, ColLatitude) \/ HasColumn(df, ColLat)
    /\ HasColumn(df, ColLongitude) \/ HasColumn(df, ColLng)

\* C11: converting an input with a Location column and separate latitude and
\* longitude columns returns True and writes the columns Location and
\* Coordinates, every row keeping its Location and its place and getting
\* Coordinates = '<longitude>,<latitude>'.
C11_LongitudeFirst ==
    (fc.pc = "done" /\ fc.op = "convert" /\ HasLatLngColumns(fc.input)) =>
        /\ fc.ret = TRUE
        /\ fc.output.readable
        /\ fc.output.columns = << ColLocation, ColCoordinates >>
        /\ Len(fc.output.rows) = Len(fc.input.rows)
        /\ \A r \in 1..Len(fc.input.rows) :
              /\ fc.output.rows[r][1] = Cell(fc.input, r, ColLocation)
              /\ fc.output.rows[r][2] =
                    Text(Str(Cell(fc.input, r, LongitudeColumn(fc.input)))
                         \o << "," >>
                         \o Str(Cell(fc.input, r, LatitudeColumn(fc.input))))

\* '<number>': an optional minus sign, digits, and an optional decimal part
IsNumberText(t) ==
    \E m \in 0..1, d \in 1..Len(t) :
        /\ m + d <= Len(t)
        /\ m = 1 => t[1] = "-"
        /\ \A i \in (m + 1)..(m + d) : IsDigit(t[i])
        /\ \/ m + d = Len(t)
           \/ /\ t[m + d + 1] = "."
              /\ \A i \in (m + d + 2)..Len(t) : IsDigit(t[i])

\* '<number>,<number>'
IsCoordinateText(cell) ==
    /\ cell.k = "text"
    /\ \E c \in 1..Len(cell.s) :
          /\ cell.s[c] = ","
          /\ IsNumberText(SubSeq(cell.s, 1, c - 1))
          /\ IsNumberText(SubSeq(cell.s, c + 1, Len(cell.s)))

\* C12: validate_coordinates_file returns True exactly when the file can be
\* read, has both a Location and a Coordinates column, and every row's
\* Coordinates value has the form '<number>,<number>'.
C12_ValidIffWellFormed ==
    (fc.pc = "done" /\ fc.op = "validate") =>
        (fc.ret = TRUE <=>
            /\ fc.input.readable
            /\ HasColumn(fc.input, ColLocation)
            /\ HasColumn(fc.input, ColCoordinates)
            /\ \A r \in 1..Len(fc.input.rows) :
                  IsCoordinateText(Cell(fc.input, r, ColCoordinates)))

\* a file of two well-formed rows was accepted
C12_TwoRowsAccepted ==
    /\ fc.pc = "done" /\ fc.op = "validate" /\ fc.ret = TRUE
    /\ Len(fc.input.rows) = 2
    /\ fc.input.rows[1] # fc.input.rows[2]

\* the documented input formats: Location,Latitude,Longitude; Location,lat,lng;
\* Location,Coordinates (in any column order)
ColumnSet(df) == { df.columns[i] : i \in 1..Len(df.columns) }

IsDocumentedFormat(df) ==
    /\ df.readable
    /\ ColumnSet(df) \in { { ColLocation, ColLatitude, ColLongitude },
                           { ColLocation, ColLat, ColLng },
                           { ColLocation, ColCoordinates } }

\* a column that is a latitude (a longitude) column under any spelling
NamesLatitude(col) == Lower(col) \in { ColLatitudeLc, ColLat }

NamesLongitude(col) == Lower(col) \in { ColLongitudeLc, ColLng, << "l","o","n" >> }

\* no recognised format: no Location column, or neither a Coordinates column
\* nor both a latitude and a longitude column
MatchesNoFormat(df) ==
    \/ ~df.readable
    \/ ~HasColumn(df, ColLocation)
    \/ /\ ~HasColumn(df, ColCoordinates)
       /\ ~(/\ \E i \in 1..Len(df.columns) : NamesLatitude(df.columns[i])
            /\ \E i \in 1..Len(df.columns) : NamesLongitude(df.columns[i]))

\* C13: the conversion returns True for each documented input format, and
\* returns False without writing an output file for an input that matches no
\* recognised format or has a latitude column but no longitude column.
C13_FormatsAcceptedOrRefused ==
    (fc.pc = "done" /\ fc.op = "convert") =>
        /\ IsDocumentedFormat(fc.input) => fc.ret = TRUE
        /\ MatchesNoFormat(fc.input) => (fc.ret = FALSE /\ fc.output = NoFile)

(***************************************************************************)
(* WeiboURLGenerator (src/src/collectors/url_generator.py).                *)
(***************************************************************************)
MaxUrlRows == 2

\* str.strip()
RECURSIVE StripLeft(_)
StripLeft(str) == IF str # << >> /\ Head(str) = " " THEN StripLeft(Tail(str)) ELSE str

RECURSIVE StripRight(_)
StripRight(str) ==
    IF str # << >> /\ str[Len(str)] = " " THEN StripRight(SubSeq(str, 1, Len(str) - 1)) ELSE str

StripStr(str) == StripRight(StripLeft(str))

\* str.split(',')
RECURSIVE Split(_)
Split(str) ==
    IF \E i \in 1..Len(str) : str[i] = ","
    THEN LET c == CHOOSE i \in 1..Len(str) :
                     str[i] = "," /\ \A j \in 1..(i - 1) : str[j] # ","
         IN << SubSeq(str, 1, c - 1) >> \o Split(SubSeq(str, c + 1, Len(str)))
    ELSE << str >>

NoUrlValue == [none |-> TRUE]

\* f"https://place.weibo.com/wandermap/?maploc={lng},{lat},12z"
PlaceUrl(lng, lat) == [none |-> FALSE, lng |-> lng, lat |-> lat]

get_weibo_place_url(coords) ==
    LET parts == Split(coords)
    IN IF Len(parts) = 2
       THEN PlaceUrl(StripStr(parts[1]), StripStr(parts[2]))
       ELSE NoUrlValue

\* what the browser finds at the place page
\*   init_fail      the WebDriver cannot be started
\*   get_error      driver.get raises
\*   iframe         an iframe is present; src, cardlist say what its src holds
\*   timeout        no iframe within 15 s; cardlist says whether the page
\*                  source holds an iframe tag with a cardlist src
\*   timeout_error  no iframe within 15 s and reading the page source raises
PageVisit(kind, src, cardlist, pageParam) ==
    [kind |-> kind, src |-> src, cardlist |-> cardlist, pageParam |-> pageParam]

NotVisited == PageVisit("not_visited", FALSE, FALSE, 0)

PageVisits(driver) ==
    (IF driver = "none" THEN { PageVisit("init_fail", FALSE, FALSE, 0) } ELSE { })
    \cup { PageVisit("get_error", FALSE, FALSE, 0),
           PageVisit("iframe", FALSE, FALSE, 0),
           PageVisit("iframe", TRUE, FALSE, 0),
           PageVisit("iframe", TRUE, TRUE, 0),
           PageVisit("iframe", TRUE, TRUE, 3),
           PageVisit("timeout", FALSE, TRUE, 0),
           PageVisit("timeout", FALSE, FALSE, 0),
           PageVisit("timeout_error", FALSE, FALSE, 0) }

\* a cardlist URL: the place it names and its '&page=' parameter (0: none)
CardlistUrl(place_url, pageParam) ==
    [none |-> FALSE, path |-> "/p/cardlist", place |-> place_url, pageParam |-> pageParam]

extract_cardlist_url_with_selenium(place_url, visit) ==
    CASE visit.kind = "iframe" /\ visit.src /\ visit.cardlist
            -> CardlistUrl(place_url, visit.pageParam)
      [] visit.kind = "timeout" /\ visit.cardlist
            -> CardlistUrl(place_url, visit.pageParam)
      [] OTHER -> NoUrlValue

convert_cardlist_to_api_url(cardlist_url, p) ==
    [cardlist_url EXCEPT !.path = "/api/container/getIndex", !.pageParam = p]

UrlRecord(location_name, coords, place_url, cardlist_url) ==
    << [Location |-> location_name, URL_Type |-> "container_api",
        API_URL |-> convert_cardlist_to_api_url(cardlist_url, 1), Page |-> 1,
        Coordinates |-> coords, Cardlist_URL |-> cardlist_url,
        Place_URL |-> place_url] >>

generate_api_urls(location_name, coords, max_pages, visit) ==
    LET place_url == get_weibo_place_url(coords)
    IN IF place_url.none THEN << >>
       ELSE LET cardlist_url == extract_cardlist_url_with_selenium(place_url, visit)
            IN IF cardlist_url.none THEN << >>
               ELSE UrlRecord(location_name, coords, place_url, cardlist_url)

\* the driver after a visit: started unless it could not be
DriverAfter(driver, visit) ==
    IF visit.kind \in { "not_visited", "init_fail" } THEN driver ELSE "up"

UrlCoordinateCells ==
    { Text(<< "1","1","6",".","3",",","3","9",".","9" >>),     \* 116.3,39.9
      Text(<< " ","1",",","2"," " >>),                         \* ' 1,2 '
      Text(<< "1","1","6",".","3" >>),                         \* 116.3
      Text(<< "1",",","2",",","3" >>),                         \* 1,2,3
      NaN }                                                    \* empty cell

UrlInputRows ==
    { [Location |-> Text(<< l >>), Coordinates |-> c] :
         l \in { "A", "B" }, c \in UrlCoordinateCells }

UrlInputs ==
    { [readable |-> TRUE, hasColumns |-> TRUE, rows |-> rows] :
         rows \in UNION { [1..n -> UrlInputRows] : n \in 0..MaxUrlRows } }
    \cup { [readable |-> TRUE, hasColumns |-> FALSE, rows |-> << >>],
           [readable |-> FALSE, hasColumns |-> FALSE, rows |-> << >>] }

MaxPagesValues == { 1, 3 }

UrlGenInit ==
    \E input \in UrlInputs, max_pages \in MaxPagesValues :
        ug = [pc |-> "idle", input |-> input, max_pages |-> max_pages, idx |-> 0,
              all_urls |-> << >>, driver |-> "none", ret |-> "none",
              output |-> "none",
              \* history: per processed row, the rows it contributed and the visit
              emitted |-> << >>, visits |-> << >>]

\* lines 158-167
UrlStart ==
    /\ ug.pc = "idle"
    /\ ug' = IF ~ug.input.readable
               THEN [ug EXCEPT !.pc = "done", !.ret = "False", !.driver = "none"]
             ELSE IF ~ug.input.hasColumns
               THEN [ug EXCEPT !.pc = "done", !.ret = "False"]
             ELSE [ug EXCEPT !.pc = "loop", !.idx = 1]
    /\ UNCHANGED << collectorVars, cc, wf, fc, ex >>

\* one iteration of the loop at lines 168-179
UrlRow ==
    /\ ug.pc = "loop"
    /\ ug.idx <= Len(ug.input.rows)
    /\ LET row == ug.input.rows[ug.idx]
       IN IF row.Location.k # "text" \/ row.Coordinates.k # "text"
          THEN \* .strip() of a value that is not a string raises: lines 191-194
               ug' = [ug EXCEPT !.pc = "done", !.ret = "False", !.driver = "none"]
          ELSE LET location == StripStr(row.Location.s)
                   coords   == StripStr(row.Coordinates.s)
               IN \E visit \in IF get_weibo_place_url(coords).none
                                THEN { NotVisited } ELSE PageVisits(ug.driver) :
                     LET location_urls ==
                            generate_api_urls(location, coords, ug.max_pages, visit)
                     IN ug' = [ug EXCEPT
                                 !.all_urls = ug.all_urls \o location_urls,
                                 !.idx = ug.idx + 1,
                                 !.driver = DriverAfter(ug.driver, visit),
                                 !.emitted = Append(ug.emitted, location_urls),
                                 !.visits = Append(ug.visits, visit)]
    /\ UNCHANGED << collectorVars, cc, wf, fc, ex >>

\* lines 180-190
UrlSave ==
    /\ ug.pc = "loop"
    /\ ug.idx > Len(ug.input.rows)
    /\ ug' = [ug EXCEPT !.pc = "done", !.ret = "True", !.driver = "none",
                        !.output = ug.all_urls]
    /\ UNCHANGED << collectorVars, cc, wf, fc, ex >>

UrlGenNext == UrlStart \/ UrlRow \/ UrlSave

InitUrls ==
    /\ CollectorParked /\ CoordParked /\ WorkflowParked
    /\ UrlGenInit /\ fc = "parked" /\ ex = "parked"

SpecUrls == InitUrls /\ [][UrlGenNext]_vars

\* coordinates that are not '<lng>,<lat>': an empty cell, or a text that does
\* not consist of two comma-separated parts
MalformedCoordinates(cell) ==
    \/ cell.k # "text"
    \/ Cardinality({ i \in 1..Len(cell.s) : cell.s[i] = "," }) # 1

\* the place page yielded an iframe URL containing 'cardlist'
YieldsCardlist(visit) ==
    \/ visit.kind = "iframe" /\ visit.src /\ visit.cardlist
    \/ visit.kind = "timeout" /\ visit.cardlist

RECURSIVE Flatten(_)
Flatten(seqs) == IF seqs = << >> THEN << >> ELSE Head(seqs) \o Flatten(Tail(seqs))

\* C14: every input location contributes at most one URL row, always with
\* Page = 1 whatever max_pages is; a location with malformed coordinates or
\* without a cardlist iframe contributes no row; and skipping a location does
\* not stop the run: it ends with every input row processed and the rows
\* generated so far written.
C14_OneRowPerLocationSkipsGoOn ==
    /\ \A i \in 1..Len(ug.emitted) :
          /\ Len(ug.emitted[i]) <= 1
          /\ \A j \in 1..Len(ug.emitted[i]) :
                /\ ug.emitted[i][j].Page = 1
                /\ ug.emitted[i][j].API_URL.pageParam = 1
          /\ (MalformedCoordinates(ug.input.rows[i].Coordinates)
                \/ ~YieldsCardlist(ug.visits[i])) => ug.emitted[i] = << >>
    /\ ug.all_urls = Flatten(ug.emitted)
    /\ (ug.pc = "done" /\ ug.input.readable /\ ug.input.hasColumns) =>
          /\ Len(ug.emitted) = Len(ug.input.rows)
          /\ ug.ret = "True"
          /\ ug.output = ug.all_urls

(***************************************************************************)
(* fetch_weibo_data_from_api for one page, and extract_weibo_info_from_json *)
(* on its own, over a wider set of response bodies than the collector run. *)
(***************************************************************************)
MaxCards == 2

\* the cards a response may carry
CardShapes ==
    { PostCard(1),
      PostCard(2),
      Card(FALSE, "absent", NoMblog, "absent", << >>),
      Card(TRUE, "other", Mblog("dict", 3), "absent", << >>),
      Card(TRUE, "9", Mblog("empty", 0), "absent", << >>),
      Card(TRUE, "9", Mblog("nondict", 0), "absent", << >>),
      Card(TRUE, "9", Mblog("badtext", 5), "absent", << >>),
      Card(TRUE, "11", NoMblog, "nonlist", << >>),
      Card(TRUE, "11", Mblog("dict", 9), "absent", << >>),
      Card(TRUE, "unhashable", NoMblog, "absent", << >>),
      GroupCard(<< GroupItem(TRUE, "9", Mblog("dict", 3)),
                   GroupItem(FALSE, "absent", NoMblog),
                   GroupItem(TRUE, "9", Mblog("dict", 4)) >>),
      GroupCard(<< GroupItem(TRUE, "other", Mblog("dict", 6)),
                   GroupItem(TRUE, "9", Mblog("badtext", 7)),
                   GroupItem(TRUE, "9", Mblog("dict", 8)) >>) }

CardLists == UNION { [1..n -> CardShapes] : n \in 0..MaxCards }

\* API errors other than the sentinel
ErrorBodies ==
    { Json("dict", "0", "other", "absent", "absent", << >>),
      Json("dict", "absent", "other", "dict", "list", << PostCard(1) >>),
      Json("dict", "0", "other", "dict", "list",
           << Card(TRUE, "unhashable", NoMblog, "absent", << >>) >>) }

FetchBodies == JsonBodies \cup ErrorBodies \cup { OkJson(cards) : cards \in CardLists }

FetchResponses ==
    { Response("exception", 0, NoJson), Response("http", 500, NoJson) }
    \cup { Response("http", 200, j) : j \in FetchBodies }

NoResponse == Response("none", 0, NoJson)

FetchCoordinates == 11

FetchLocation == 1

FetchInit ==
    ex = [pc |-> "idle", json |-> NoJson, posts |-> << >>, attempt |-> 0,
          last |-> NoResponse, outcome |-> "none", ret |-> NoRet,
          stats |-> NoStats, https |-> 0, slept |-> 0]

\* extract_weibo_info_from_json called with a parsed body
ExtractBody ==
    /\ ex.pc = "idle"
    /\ \E j \in FetchBodies :
          /\ j.top # "invalid"
          /\ ex' = [ex EXCEPT !.pc = "extracted", !.json = j,
                              !.posts = extract_weibo_info_from_json(j, FetchCoordinates)]
    /\ UNCHANGED << collectorVars, cc, wf, fc, ug >>

\* the call of fetch_weibo_data_from_api: line 268
FetchCall ==
    /\ ex.pc = "idle"
    /\ ex' = [ex EXCEPT !.pc = "attempt", !.stats.total_requests = @ + 1]
    /\ UNCHANGED << collectorVars, cc, wf, fc, ug >>

\* one pass of the retry loop: lines 270-342
FetchAttempt ==
    /\ ex.pc = "attempt"
    /\ \E resp \in FetchResponses :
          LET o == AttemptOutcome(resp, FetchCoordinates, FetchLocation)
              seen == [ex EXCEPT !.last = resp, !.outcome = o.kind, !.https = @ + 1]
          IN ex' = IF o.kind = "ok"
                     THEN [seen EXCEPT !.pc = "returned",
                                       !.stats.successful_requests = @ + 1,
                                       !.stats.total_posts = @ + Len(o.posts),
                                       !.ret = [posts |-> o.posts, end |-> o.end]]
                   ELSE IF HasRetryLeft(ex.attempt)
                     THEN [seen EXCEPT !.attempt = @ + 1,
                                       !.slept = @ + RetrySleep(1, ex.attempt)]
                   ELSE [seen EXCEPT !.pc = "returned",
                                     !.stats.failed_requests = @ + 1,
                                     !.ret = FailedReturn]
    /\ UNCHANGED << collectorVars, cc, wf, fc, ug >>

\* what the page loop does with the returned flag: lines 427-430
FetchFollowUp ==
    /\ ex.pc = "returned"
    /\ ex' = [ex EXCEPT !.pc = IF ex.ret.end THEN "break" ELSE "next_page"]
    /\ UNCHANGED << collectorVars, cc, wf, fc, ug >>

FetchNext == ExtractBody \/ FetchCall \/ FetchAttempt \/ FetchFollowUp

InitFetch ==
    /\ CollectorParked /\ CoordParked /\ WorkflowParked
    /\ FetchInit /\ fc = "parked" /\ ug = "parked"

SpecFetch == InitFetch /\ [][FetchNext]_vars

\* an HTTP-200 body that signals an API error other than the sentinel
IsApiError(resp) ==
    /\ resp.kind = "http"
    /\ resp.status_code = 200
    /\ resp.json.top = "dict"
    /\ resp.json.ok # "1"
    /\ ~(resp.json.ok = "0" /\ resp.json.msg = NoContentMsg)

\* C17: an HTTP-200 response signalling an API error other than the sentinel
\* makes the fetch return at once with no posts and is_end_of_data = False,
\* counted as a successful request, and the page loop does not break on it.
C17_ApiErrorIsSuccessWithoutPosts ==
    (ex.pc # "idle" /\ IsApiError(ex.last)) =>
        /\ ex.pc \in { "returned", "next_page" }
        /\ ex.outcome = "ok"
        /\ ex.ret.posts = << >>
        /\ ex.ret.end = FALSE
        /\ ex.stats.successful_requests = 1
        /\ ex.stats.failed_requests = 0

\* the records the cards of a response stand for, in document order
RECURSIVE ItemMids(_)
ItemMids(items) ==
    IF items = << >> THEN << >>
    ELSE (IF /\ Head(items).isdict
             /\ Head(items).card_type = "9"
             /\ Head(items).mblog.kind \in { "dict", "badtext" }
          THEN << Head(items).mblog.mid >> ELSE << >>) \o ItemMids(Tail(items))

RECURSIVE CardMids(_)
CardMids(cards) ==
    IF cards = << >> THEN << >>
    ELSE LET card == Head(cards)
         IN (IF ~card.isdict THEN << >>
             ELSE IF card.card_type = "9"
               THEN (IF card.mblog.kind \in { "dict", "badtext" }
                     THEN << card.mblog.mid >> ELSE << >>)
             ELSE IF card.card_type = "11" /\ card.groupKind = "list"
               THEN ItemMids(card.card_group)
             ELSE << >>) \o CardMids(Tail(cards))

\* C19: for a response with a list of cards, the extraction returns, in
\* document order, one record per top-level card of type 9 with a non-empty
\* object mblog and one per such item in the card_group list of a card of
\* type 11; every other card or item contributes nothing and stops nothing.
C19_OneRecordPerPostInOrder ==
    (/\ ex.pc = "extracted"
     /\ ex.json.top = "dict" /\ ex.json.ok = "1" /\ ~IsNoContent(ex.json)
     /\ ex.json.dataKind = "dict" /\ ex.json.cardsKind = "list") =>
        /\ [i \in 1..Len(ex.posts) |-> ex.posts[i].mid] = CardMids(ex.json.cards)
        /\ \A i \in 1..Len(ex.posts) : ex.posts[i].coordinates = FetchCoordinates

====
